---- MODULE Spec2Model ----
(***************************************************************************)
(* Air-quality pipeline of project/back: the normalizer and dedup writer   *)
(* (jobs/normalizer.py), the ingestion run (jobs/ingestion_job.py), the     *)
(* daily aggregation (jobs/daily_aggregation_job.py), the alert checker     *)
(* (jobs/alert_checker_job.py) and the job scheduler (jobs/scheduler.py).   *)
(*                                                                         *)
(* Encodings.  Concentrations are integers in thousandths of the unit      *)
(* (12.1 is 12100).  Instants are integers in seconds.  A station name     *)
(* f"{city} Station" is the pair <<city, " Station">>.  A provider name is *)
(* the sequence of its characters, so that lower() and the substring test  *)
(* are computed.  The tables are bags of rows, so that a table can hold    *)
(* two equal rows unless the database refuses the second.                  *)
(***************************************************************************)
EXTENDS Integers, Sequences, FiniteSets, Bags, TLC

VARIABLES
    stations,        \* table station: set of [id, name, city]
    providers,       \* table provider: set of names
    pollutants,      \* table pollutant: set of [id, name]
    readings,        \* table airqualityreading (committed rows): a bag
    pollutant_cache, \* DataNormalizer.pollutant_cache: name -> id
    station_cache,   \* DataNormalizer.station_cache: <<name, city>> -> id
    wpc,             \* per normalize_and_save call: position
    provider_name,   \* per call: argument provider_name
    raw_data,        \* per call: argument raw_data
    idx,             \* per call: index of the record the loop is at
    tx,              \* per call: rows flushed in the open transaction
    expired,         \* per call: the Provider object is expired
    stats,           \* per call: the statistics dictionary
    answers,         \* per call: what became of each record so far (observation)
    run,             \* the ingestion run (IngestionJob.run)
    now,             \* datetime.utcnow(), in seconds
    daily_stats,     \* table airqualitydailystats (committed rows): a bag
    apc,             \* per aggregation call: position
    acall,           \* per aggregation call: run(target_date) or backfill(start, end)
    current_date,    \* per aggregation call: the date being aggregated
    apos,            \* per aggregation call: index of the (station, pollutant) pair
    staged,          \* per aggregation call: the session's unflushed changes
    astats,          \* per aggregation call: the statistics of the day
    results,         \* per aggregation call: the results of backfill
    acause,          \* per aggregation call: why the last commit failed (observation)
    alerts,          \* table alert: set of rows
    last_notifications, \* AlertCheckerJob.last_notifications: alert_key -> instant
    epc,             \* per alert checker run: position
    active_alerts,   \* per alert checker run: the active alerts it queried
    epos,            \* per alert checker run: index of the alert being checked
    notifications_sent, \* per alert checker run: its counter
    eresult,         \* per alert checker run: outcome of its last check (observation)
    sent_log,        \* the notifications delivered: [alert, at] (observation)
    instances,       \* the scheduler's count of running instances, per job id
    manual,          \* the runs started by run_now and not yet ended, per job name
    returned,        \* what the last call of run_now to end gave its caller
    calc             \* a call of a converter function: [fn, arg, done, out]

tables == <<stations, providers, pollutants, readings>>

ingestVars == <<pollutant_cache, station_cache,
                wpc, provider_name, raw_data, idx, tx, expired, stats, answers, run>>

aggVars == <<daily_stats, apc, acall, current_date, apos, staged, astats, results, acause>>

alertVars == <<alerts, last_notifications, epc, active_alerts, epos,
               notifications_sent, eresult, sent_log>>

schedVars == <<instances, manual, returned>>

vars == <<tables, ingestVars, now, aggVars, alertVars, schedVars, calc>>

(***************************************************************************)
(* Bounds of the model.                                                    *)
(***************************************************************************)
MaxBatch == 2        \* longest raw_data list

Writers == {1, 2}    \* concurrent normalize_and_save calls

(***************************************************************************)
(* Python values.                                                          *)
(***************************************************************************)
None == 0            \* Optional[int] None; ids start at 1, and both are falsy

(***************************************************************************)
(* Strings as character sequences: str.lower() and the `in` test.          *)
(***************************************************************************)
UpperChars == <<"A","B","C","D","E","F","G","H","I","J","K","L","M",
                "N","O","P","Q","R","S","T","U","V","W","X","Y","Z">>
LowerChars == <<"a","b","c","d","e","f","g","h","i","j","k","l","m",
                "n","o","p","q","r","s","t","u","v","w","x","y","z">>

LowerChar(c) ==
    IF \E i \in 1..Len(UpperChars) : UpperChars[i] = c
    THEN LowerChars[CHOOSE i \in 1..Len(UpperChars) : UpperChars[i] = c]
    ELSE c

lower(s) == [i \in 1..Len(s) |-> LowerChar(s[i])]

Contains(s, sub) ==
    \E i \in 1..(Len(s) - Len(sub) + 1) : SubSeq(s, i, i + Len(sub) - 1) = sub

AQICN_MOCK  == <<"A","Q","I","C","N"," ","M","o","c","k">>
GOOGLE_MOCK == <<"G","o","o","g","l","e"," ","A","i","r"," ","Q","u","a","l","i","t","y",
                 " ","M","o","c","k">>
IQAIR_MOCK  == <<"I","Q","A","i","r"," ","M","o","c","k">>
AIRVISUAL   == <<"A","i","r","V","i","s","u","a","l">>
OPENAQ      == <<"O","p","e","n","A","Q">>

ProviderNames == {AQICN_MOCK, GOOGLE_MOCK, IQAIR_MOCK, AIRVISUAL, OPENAQ}

(***************************************************************************)
(* Reference tables.                                                       *)
(***************************************************************************)
PollutantTable ==
    {[id |-> 1, name |-> "PM2.5"], [id |-> 2, name |-> "PM10"], [id |-> 3, name |-> "O3"],
     [id |-> 4, name |-> "NO2"],   [id |-> 5, name |-> "SO2"],  [id |-> 6, name |-> "CO"]}

BogotaStation == [id |-> 1, name |-> <<"Bogota", " Station">>, city |-> "Bogota"]
GoogleStation == [id |-> 2, name |-> <<"Google", " Station">>, city |-> "Bogotá"]
IQAirStation  == [id |-> 3, name |-> <<"Bogota", " IQAir Station">>, city |-> "Bogota"]

StationTables == {{BogotaStation, IQAirStation},
                  {BogotaStation, IQAirStation, GoogleStation}}

(***************************************************************************)
(* Unit & AQI converter (DataNormalizer).                                  *)
(***************************************************************************)
\* (aqi_low, aqi_high, conc_low, conc_high), concentrations in thousandths
AQI_BREAKPOINTS ==
    << <<0, 50, 0, 12000>>,
       <<51, 100, 12100, 35400>>,
       <<101, 150, 35500, 55400>>,
       <<151, 200, 55500, 150400>>,
       <<201, 300, 150500, 250400>>,
       <<301, 500, 250500, 500400>> >>

\* the bands whose closed concentration range holds the concentration
BandsOfConc(concentration) ==
    {i \in 1..Len(AQI_BREAKPOINTS) :
        /\ AQI_BREAKPOINTS[i][3] <= concentration
        /\ concentration <= AQI_BREAKPOINTS[i][4]}

\* int(((aqi_high - aqi_low) / (conc_high - conc_low)) * (c - conc_low) + aqi_low)
\* of the first band that holds c; int() truncates, and the value is >= 0
InterpolateAqi(b, concentration) ==
    (((b[2] - b[1]) * (concentration - b[3])) \div (b[4] - b[3])) + b[1]

_calculate_aqi(concentration, pollutant) ==
    IF pollutant = "PM2.5"
    THEN IF BandsOfConc(concentration) # {}
         THEN LET i == CHOOSE j \in BandsOfConc(concentration) :
                           \A k \in BandsOfConc(concentration) : j <= k
              IN InterpolateAqi(AQI_BREAKPOINTS[i], concentration)
         ELSE 500
    ELSE 75

\* the body is `return value`: no conversion table is applied
_convert_to_canonical_unit(value, unit, pollutant) == value

BandsOfAqi(aqi) ==
    {i \in 1..Len(AQI_BREAKPOINTS) :
        AQI_BREAKPOINTS[i][1] <= aqi /\ aqi <= AQI_BREAKPOINTS[i][2]}

\* the estimate that is the lower concentration of the band, whatever the AQI
EstimateBandLow(aqi) ==
    IF BandsOfAqi(aqi) # {}
    THEN LET i == CHOOSE j \in BandsOfAqi(aqi) : \A k \in BandsOfAqi(aqi) : j <= k
         IN <<AQI_BREAKPOINTS[i][3], 1>>
    ELSE <<500000, 1>>

\* conc_low + ((aqi - aqi_low) * (conc_high - conc_low)) / (aqi_high - aqi_low)
\* of the first band that holds the AQI, as the fraction <<numerator, denominator>>
\* of thousandths; 500.0 outside the bands
EstimateFraction(aqi) ==
    IF BandsOfAqi(aqi) # {}
    THEN LET i == CHOOSE j \in BandsOfAqi(aqi) : \A k \in BandsOfAqi(aqi) : j <= k
             b == AQI_BREAKPOINTS[i]
         IN <<b[3] * (b[2] - b[1]) + (aqi - b[1]) * (b[4] - b[3]), b[2] - b[1]>>
    ELSE <<500000, 1>>

\* the estimate as a stored value: cut to thousandths
_estimate_pm25_from_aqi(aqi) == EstimateFraction(aqi)[1] \div EstimateFraction(aqi)[2]

\* mapping.get(code.lower(), code.upper()) over the codes the payloads carry
_map_pollutant_code(code) ==
    CASE code \in {"pm25", "PM25"} -> "PM2.5"
      [] code \in {"pm10", "PM10"} -> "PM10"
      [] code \in {"o3", "O3"}     -> "O3"
      [] code \in {"no2", "NO2"}   -> "NO2"
      [] code \in {"so2", "SO2"}   -> "SO2"
      [] code \in {"co", "CO"}     -> "CO"
      [] code \in {"xx", "XX"}     -> "XX"
      [] OTHER                     -> code

(***************************************************************************)
(* Timestamps of payloads: a string is [form, t]; form tells which parser  *)
(* accepts it, t is the instant it denotes.                                *)
(***************************************************************************)
\* datetime.strptime(s, "%Y-%m-%d %H:%M:%S"): only the space-delimited form
StrptimeOk(s) == s.form = "space"
\* datetime.fromisoformat(s.replace("Z", "+00:00")): the ISO forms
FromIsoOk(s) == s.form \in {"iso", "isoZ"}

(***************************************************************************)
(* Provider payloads (the shapes services/mock_providers.py produces).     *)
(* One record shape for all: shape names the JSON layout, the fields a     *)
(* layout does not have are empty.                                         *)
(***************************************************************************)
NoItems == <<>>

Payload(shape, city, time, iaqi, items, aqius) ==
    [shape |-> shape, city |-> city, time |-> time, iaqi |-> iaqi,
     pollutants |-> items, aqius |-> aqius]

Item(code, v) == [code |-> code, value |-> v, units |-> "MICROGRAMS_PER_CUBIC_METER"]

\* AQICN, Bogota, pm25 = 10.0 at instant 100
AqicnA    == Payload("aqicn", "Bogota", [form |-> "space", t |-> 100],
                     [c \in {"pm25"} |-> 10000], NoItems, 0)
\* the same station, pollutant and instant with another value
AqicnA2   == Payload("aqicn", "Bogota", [form |-> "space", t |-> 100],
                     [c \in {"pm25"} |-> 40000], NoItems, 0)
\* a city with no station row
AqicnNoSt == Payload("aqicn", "Cali", [form |-> "space", t |-> 100],
                     [c \in {"pm25"} |-> 10000], NoItems, 0)
\* Google, two known pollutants and an unknown code at instant 100
GoogleA   == Payload("google", "", [form |-> "isoZ", t |-> 100], NoItems,
                     <<Item("pm25", 20000), Item("no2", 30000), Item("xx", 5000)>>, 0)
\* IQAir, the city's AQI alone
IQAirA    == Payload("iqair", "Bogota", [form |-> "isoZ", t |-> 100],
                     NoItems, NoItems, 75)
\* IQAir, an AQI above the scale (the payload's aqius is any number)
IQAirHigh == Payload("iqair", "Bogota", [form |-> "isoZ", t |-> 100],
                     NoItems, NoItems, 600)

(***************************************************************************)
(* Provider adapter (the normalize methods of DataNormalizer).              *)
(***************************************************************************)
_get_pollutant_id(name) ==
    IF name \in DOMAIN pollutant_cache THEN pollutant_cache[name] ELSE None

_get_or_create_station(name, city) ==
    IF <<name, city>> \in DOMAIN station_cache
    THEN station_cache[<<name, city>>]
    ELSE None

Reading(station_id, pollutant_id, datetime, value, aqi) ==
    [station_id |-> station_id, pollutant_id |-> pollutant_id,
     datetime |-> datetime, value |-> value, aqi |-> aqi]

\* pollutant_mapping, in its iteration order
AqicnMapping == << <<"pm25", "PM2.5", "ug/m3">>, <<"pm10", "PM10", "ug/m3">>,
                   <<"o3", "O3", "ppb">>, <<"no2", "NO2", "ppb">>,
                   <<"so2", "SO2", "ppb">>, <<"co", "CO", "ppm">> >>

RECURSIVE AqicnReadings(_, _, _)
AqicnReadings(i, record, station_id) ==
    IF i > Len(AqicnMapping) THEN <<>>
    ELSE LET key  == AqicnMapping[i][1]
             name == AqicnMapping[i][2]
             unit == AqicnMapping[i][3]
             rest == AqicnReadings(i + 1, record, station_id)
         IN IF key \in DOMAIN record.iaqi /\ _get_pollutant_id(name) # None
            THEN LET v == _convert_to_canonical_unit(record.iaqi[key], unit, name)
                 IN <<Reading(station_id, _get_pollutant_id(name), record.time.t,
                              v, _calculate_aqi(v, name))>> \o rest
            ELSE rest

_normalize_aqicn(record) ==
    IF record.shape # "aqicn" \/ ~StrptimeOk(record.time)
    THEN <<>>          \* the except branch: a missing key or a bad time string
    ELSE LET station_id == _get_or_create_station(<<record.city, " Station">>, record.city)
         IN IF station_id = None THEN <<>>
            ELSE AqicnReadings(1, record, station_id)

RECURSIVE GoogleReadings(_, _, _)
GoogleReadings(i, record, station_id) ==
    IF i > Len(record.pollutants) THEN <<>>
    ELSE LET p    == record.pollutants[i]
             name == _map_pollutant_code(p.code)
             rest == GoogleReadings(i + 1, record, station_id)
         IN IF _get_pollutant_id(name) # None
            THEN LET v == _convert_to_canonical_unit(p.value, p.units, name)
                 IN <<Reading(station_id, _get_pollutant_id(name), record.time.t,
                              v, _calculate_aqi(v, name))>> \o rest
            ELSE rest

\* the station id is used as looked up: None is not tested
_normalize_google(record) ==
    IF record.shape # "google" \/ ~FromIsoOk(record.time)
    THEN <<>>
    ELSE GoogleReadings(1, record,
                        _get_or_create_station(<<"Google", " Station">>, "Bogotá"))

_normalize_iqair(record) ==
    IF record.shape # "iqair" \/ ~FromIsoOk(record.time)
    THEN <<>>
    ELSE LET station_id   == _get_or_create_station(<<record.city, " IQAir Station">>,
                                                    record.city)
             pollutant_id == _get_pollutant_id("PM2.5")
         IN IF pollutant_id # None /\ station_id # None
            THEN <<Reading(station_id, pollutant_id, record.time.t,
                           _estimate_pm25_from_aqi(record.aqius), record.aqius)>>
            ELSE <<>>

\* the branch of _normalize_record the provider name selects
NormalizerOf(provider) ==
    IF Contains(lower(provider), <<"a","q","i","c","n">>)
       \/ Contains(lower(provider), <<"w","a","q","i">>)
    THEN "aqicn"
    ELSE IF Contains(lower(provider), <<"g","o","o","g","l","e">>)
    THEN "google"
    ELSE IF Contains(lower(provider), <<"i","q","a","i","r">>)
    THEN "iqair"
    ELSE "unknown"

\* NormalizerOf over the provider names of the model, computed once
NormalizerTable == [p \in ProviderNames |-> NormalizerOf(p)]

\* None (unknown provider) and [] are both falsy to the caller: both are <<>>
_normalize_record(record, provider) ==
    CASE NormalizerTable[provider] = "aqicn"  -> _normalize_aqicn(record)
      [] NormalizerTable[provider] = "google" -> _normalize_google(record)
      [] NormalizerTable[provider] = "iqair"  -> _normalize_iqair(record)
      [] OTHER                                -> <<>>

(***************************************************************************)
(* The table airqualityreading and its constraints (models/__init__.py).   *)
(***************************************************************************)
Key(r) == <<r.station_id, r.pollutant_id, r.datetime>>

RECURSIVE SeqToBag(_)
SeqToBag(s) == IF s = <<>> THEN EmptyBag ELSE SetToBag({Head(s)}) (+) SeqToBag(Tail(s))

KeysOf(bag) == {Key(r) : r \in BagToSet(bag)}

\* how many committed rows carry the key
CountKey(bag, k) ==
    LET rows == {r \in BagToSet(bag) : Key(r) = k}
        RECURSIVE Sum(_)
        Sum(S) == IF S = {} THEN 0
                  ELSE LET r == CHOOSE x \in S : TRUE
                       IN CopiesIn(r, bag) + Sum(S \ {r})
    IN Sum(rows)

\* station_id ... nullable=False
NotNullViolated(rows) == \E i \in DOMAIN rows : rows[i].station_id = None

\* the table without uq_reading
NoUniqueConstraint(w, rows) == FALSE

\* UniqueConstraint('station_id', 'pollutant_id', 'datetime', name='uq_reading'):
\* against the committed rows, the rows of the own transaction and the other
\* rows of the same flush
UniqueViolated(w, rows) ==
    \/ \E i, j \in DOMAIN rows : i # j /\ Key(rows[i]) = Key(rows[j])
    \/ \E i \in DOMAIN rows : Key(rows[i]) \in (KeysOf(readings) \cup KeysOf(tx[w]))

\* the key is held by a row another open transaction has inserted: the
\* INSERT waits until that transaction commits or rolls back
WaitsForOther(w, rows) ==
    \E w2 \in Writers \ {w} : \E i \in DOMAIN rows : Key(rows[i]) \in KeysOf(tx[w2])

\* what the database answers to the flush of rows
FlushAnswer(w, rows, fault) ==
    IF NotNullViolated(rows) THEN "notnull"
    ELSE IF UniqueViolated(w, rows) THEN "unique"
    ELSE IF fault THEN "fault"
    ELSE "ok"

(***************************************************************************)
(* Dedup writer: DataNormalizer._save_reading.  ret is True, False or      *)
(* "raise"; tx is the transaction after the call (rollback empties it).    *)
(***************************************************************************)
\* _save_reading without its except clauses: the exception reaches the caller
SaveReadingRaises(w, rows, fault) ==
    LET answer == FlushAnswer(w, rows, fault)
    IN IF answer = "ok"
       THEN [ret |-> "True", tx |-> tx[w] (+) SeqToBag(rows), answer |-> answer]
       ELSE [ret |-> "raise", tx |-> tx[w], answer |-> answer]

\* a writer that stores the later row of a key as well
SaveReadingStoresAgain(w, rows, fault) ==
    LET answer == FlushAnswer(w, rows, fault)
    IN IF answer \in {"ok", "unique"}
       THEN [ret |-> "True", tx |-> tx[w] (+) SeqToBag(rows), answer |-> answer]
       ELSE [ret |-> "False", tx |-> EmptyBag, answer |-> answer]

_save_reading(w, rows, fault) ==
    LET answer == FlushAnswer(w, rows, fault)
    IN IF answer = "ok"
       THEN [ret |-> "True", tx |-> tx[w] (+) SeqToBag(rows), answer |-> answer]
       ELSE IF answer \in {"notnull", "unique"}
       THEN [ret |-> "False", tx |-> EmptyBag, answer |-> answer]   \* except IntegrityError
       ELSE [ret |-> "False", tx |-> EmptyBag, answer |-> answer]   \* except Exception

(***************************************************************************)
(* DataNormalizer.normalize_and_save, one call per writer.                 *)
(***************************************************************************)
NewStats(n) == [total_records |-> n, validated |-> 0, saved |-> 0,
                duplicates |-> 0, errors |-> 0, error_details |-> 0]

Bump(st, field) == [st EXCEPT ![field] = @ + 1]

_load_pollutants == [n \in {p.name : p \in pollutants} |->
                        (CHOOSE p \in pollutants : p.name = n).id]

_load_stations == [k \in {<<s.name, s.city>> : s \in stations} |->
                        (CHOOSE s \in stations : <<s.name, s.city>> = k).id]

WithProvider(r, p) ==
    [station_id |-> r.station_id, pollutant_id |-> r.pollutant_id,
     datetime |-> r.datetime, value |-> r.value, aqi |-> r.aqi, provider_id |-> p]

\* a PM2.5 reading as the normalizer stores it
Pm25Reading(station_id, datetime, value) ==
    WithProvider(Reading(station_id, 1, datetime, value, _calculate_aqi(value, "PM2.5")), 1)

\* a NO2 reading as the normalizer stores it
No2Reading(station_id, datetime, value) ==
    WithProvider(Reading(station_id, 4, datetime, value, _calculate_aqi(value, "NO2")), 1)

callVars == <<wpc, provider_name, raw_data, idx, tx, expired, stats, answers>>

\* lines 65-82: session, provider, caches, stats; or the session fails
NormalizeBegin(w) ==
    /\ wpc[w] = "called"
    /\ \/ /\ providers' = providers \cup {provider_name[w]}
          /\ expired' = [expired EXCEPT ![w] = provider_name[w] \notin providers]
          /\ pollutant_cache' = _load_pollutants
          /\ station_cache' = _load_stations
          /\ stats' = [stats EXCEPT ![w] = NewStats(Len(raw_data[w]))]
          /\ idx' = [idx EXCEPT ![w] = 1]
          /\ wpc' = [wpc EXCEPT ![w] = "loop"]
          /\ UNCHANGED <<tx, answers>>
       \/ /\ wpc' = [wpc EXCEPT ![w] = "raised"]
          /\ UNCHANGED <<providers, expired, pollutant_cache, station_cache,
                         stats, idx, tx, answers>>
    /\ UNCHANGED <<stations, pollutants, readings, provider_name, raw_data, run, now, aggVars, alertVars, schedVars, calc>>

\* lines 84-106: one iteration of the loop over raw_data
NormalizeRecord(w) ==
    /\ wpc[w] = "loop"
    /\ idx[w] <= Len(raw_data[w])
    /\ \E normalized \in {_normalize_record(raw_data[w][idx[w]], provider_name[w])} :
         IF normalized = <<>>
         THEN /\ stats' = [stats EXCEPT ![w] = Bump(@, "errors")]
              /\ idx' = [idx EXCEPT ![w] = @ + 1]
              /\ answers' = [answers EXCEPT ![w] = Append(@, "dropped")]
              /\ UNCHANGED <<wpc, tx, expired>>
         ELSE \/ \* provider.id of an expired Provider: the refresh fails
                 /\ expired[w]
                 /\ stats' = [stats EXCEPT ![w] =
                                Bump(Bump(Bump(@, "validated"), "errors"), "error_details")]
                 /\ wpc' = [wpc EXCEPT ![w] = "log_error"]
                 /\ answers' = [answers EXCEPT ![w] = Append(@, "refresh")]
                 /\ UNCHANGED <<idx, tx, expired>>
              \/ \E fault \in BOOLEAN :
                 \E rows \in {[i \in DOMAIN normalized |->
                                  WithProvider(normalized[i], provider_name[w])]} :
                 \E res \in {_save_reading(w, rows, fault)} :
                    /\ res.answer = "ok" => ~WaitsForOther(w, rows)
                    /\ answers' = [answers EXCEPT ![w] = Append(@, res.answer)]
                    /\ tx' = [tx EXCEPT ![w] = res.tx]
                    /\ expired' = [expired EXCEPT ![w] = (res.answer # "ok")]
                    /\ IF res.ret = "True"
                       THEN /\ stats' = [stats EXCEPT ![w] =
                                           Bump(Bump(@, "validated"), "saved")]
                            /\ idx' = [idx EXCEPT ![w] = @ + 1]
                            /\ UNCHANGED wpc
                       ELSE IF res.ret = "False"
                       THEN /\ stats' = [stats EXCEPT ![w] =
                                           Bump(Bump(@, "validated"), "duplicates")]
                            /\ idx' = [idx EXCEPT ![w] = @ + 1]
                            /\ UNCHANGED wpc
                       ELSE /\ stats' = [stats EXCEPT ![w] =
                                Bump(Bump(Bump(@, "validated"), "errors"), "error_details")]
                            /\ wpc' = [wpc EXCEPT ![w] = "log_error"]
                            /\ UNCHANGED idx
    /\ UNCHANGED <<tables, pollutant_cache, station_cache,
                   provider_name, raw_data, run, now, aggVars, alertVars, schedVars, calc>>

\* line 106: await self._log_error(...); a failing insert leaves the loop
\* (lines 112-115: rollback, raise)
NormalizeLogError(w) ==
    /\ wpc[w] = "log_error"
    /\ \/ /\ idx' = [idx EXCEPT ![w] = @ + 1]
          /\ wpc' = [wpc EXCEPT ![w] = "loop"]
          /\ UNCHANGED tx
       \/ /\ tx' = [tx EXCEPT ![w] = EmptyBag]
          /\ wpc' = [wpc EXCEPT ![w] = "raised"]
          /\ UNCHANGED idx
    /\ UNCHANGED <<tables, pollutant_cache, station_cache,
                   provider_name, raw_data, expired, stats, answers, run, now, aggVars, alertVars, schedVars, calc>>

\* lines 108-110: db.commit() and return stats; or the commit fails
\* (lines 112-115: rollback, raise)
NormalizeCommit(w) ==
    /\ wpc[w] = "loop"
    /\ idx[w] > Len(raw_data[w])
    /\ \/ /\ readings' = readings (+) tx[w]
          /\ wpc' = [wpc EXCEPT ![w] = "returned"]
       \/ /\ wpc' = [wpc EXCEPT ![w] = "raised"]
          /\ UNCHANGED readings
    /\ tx' = [tx EXCEPT ![w] = EmptyBag]
    /\ UNCHANGED <<stations, providers, pollutants, pollutant_cache, station_cache,
                   provider_name, raw_data, idx, expired, stats, answers, run, now, aggVars, alertVars, schedVars, calc>>

(***************************************************************************)
(* Daily aggregation: DailyAggregationJob.  A date is the number of its    *)
(* day; the instants of day d are d * 86400 .. d * 86400 + 86399.          *)
(***************************************************************************)
Aggs == {1, 2}       \* concurrent calls of the aggregation job

DaySeconds == 86400

MaxPairErrors == 1   \* failing pairs of one day

\* datetime.combine(target_date, datetime.min.time()) and ...max.time()
start_datetime(target_date) == target_date * DaySeconds
end_datetime(target_date) == target_date * DaySeconds + (DaySeconds - 1)

\* (datetime.utcnow() - timedelta(days=1)).date()
Yesterday == (now - DaySeconds) \div DaySeconds

StatKey(r) == <<r.station_id, r.pollutant_id, r.date>>

\* the sum of a field over rows of a bag, each with its copies; the field
\* "count" counts the rows
RECURSIVE SumRows(_, _, _)
SumRows(rows, bag, field) ==
    IF rows = {} THEN 0
    ELSE LET r == CHOOSE x \in rows : TRUE
         IN CopiesIn(r, bag) * (IF field = "count" THEN 1 ELSE r[field])
            + SumRows(rows \ {r}, bag, field)

\* the query without its upper bound on the instant
ReadingsFromDay(station_id, pollutant_id, target_date) ==
    {r \in BagToSet(readings) :
        /\ r.station_id = station_id
        /\ r.pollutant_id = pollutant_id
        /\ r.datetime >= start_datetime(target_date)}

\* lines 121-126: the readings of the pair on the date
ReadingsOfDay(station_id, pollutant_id, target_date) ==
    {r \in BagToSet(readings) :
        /\ r.station_id = station_id
        /\ r.pollutant_id = pollutant_id
        /\ r.datetime >= start_datetime(target_date)
        /\ r.datetime <= end_datetime(target_date)}

\* lines 139-148: the aggregates of the rows
Aggregates(station_id, pollutant_id, target_date, rows) ==
    LET n       == SumRows(rows, readings, "count")
        sum_v   == SumRows(rows, readings, "value")
        sum_aqi == SumRows(rows, readings, "aqi")
    IN [station_id |-> station_id, pollutant_id |-> pollutant_id, date |-> target_date,
        avg_value |-> <<sum_v, n>>,               \* sum(values) / len(values)
        avg_aqi |-> sum_aqi \div n,               \* int(sum / len), the AQIs are >= 0
        max_aqi |-> CHOOSE m \in {r.aqi : r \in rows} : \A r \in rows : r.aqi <= m,
        min_aqi |-> CHOOSE m \in {r.aqi : r \in rows} : \A r \in rows : m <= r.aqi,
        readings_count |-> n]

\* a lookup that finds no row
NoExistingStat(station_id, pollutant_id, target_date) == {}

\* lines 151-155: the committed row of the key, if any
ExistingStat(station_id, pollutant_id, target_date) ==
    {r \in BagToSet(daily_stats) : StatKey(r) = <<station_id, pollutant_id, target_date>>}

\* an aggregation that writes a row of zero readings where the date has none
AggregateEmptyToo(station_id, pollutant_id, target_date) ==
    LET rows == ReadingsOfDay(station_id, pollutant_id, target_date)
        none == [station_id |-> station_id, pollutant_id |-> pollutant_id,
                 date |-> target_date, avg_value |-> <<0, 0>>, avg_aqi |-> None,
                 max_aqi |-> None, min_aqi |-> None, readings_count |-> 0]
    IN IF rows = {}
       THEN IF ExistingStat(station_id, pollutant_id, target_date) # {}
            THEN [result |-> "updated", change |-> <<[op |-> "update", row |-> none]>>]
            ELSE [result |-> "created", change |-> <<[op |-> "insert", row |-> none]>>]
       ELSE LET aggregates == Aggregates(station_id, pollutant_id, target_date, rows)
            IN IF ExistingStat(station_id, pollutant_id, target_date) # {}
               THEN [result |-> "updated", change |-> <<[op |-> "update", row |-> aggregates]>>]
               ELSE [result |-> "created", change |-> <<[op |-> "insert", row |-> aggregates]>>]

\* lines 103-167; the change is staged in the session (autoflush is off)
_aggregate_for_station_pollutant(station_id, pollutant_id, target_date) ==
    LET rows == ReadingsOfDay(station_id, pollutant_id, target_date)
    IN IF rows = {}
       THEN [result |-> "skipped", change |-> <<>>]
       ELSE LET aggregates == Aggregates(station_id, pollutant_id, target_date, rows)
            IN IF ExistingStat(station_id, pollutant_id, target_date) # {}
               THEN [result |-> "updated", change |-> <<[op |-> "update", row |-> aggregates]>>]
               ELSE [result |-> "created", change |-> <<[op |-> "insert", row |-> aggregates]>>]

\* the ids of a table in increasing order
RECURSIVE IdsInOrder(_)
IdsInOrder(ids) ==
    IF ids = {} THEN <<>>
    ELSE LET m == CHOOSE x \in ids : \A y \in ids : x <= y
         IN <<m>> \o IdsInOrder(ids \ {m})

\* lines 62-63: for station in stations: for pollutant in pollutants
AggPairs ==
    LET ss == IdsInOrder({x.id : x \in stations})
        ps == IdsInOrder({x.id : x \in pollutants})
    IN [k \in 1..(Len(ss) * Len(ps)) |->
           <<ss[((k - 1) \div Len(ps)) + 1], ps[((k - 1) % Len(ps)) + 1]>>]

\* the table without uq_daily_stats
NoDailyUniqueConstraint(changes) == FALSE

\* UniqueConstraint('station_id', 'pollutant_id', 'date', name='uq_daily_stats'):
\* an INSERT of the flush meets a committed row of its key
DailyUniqueViolated(changes) ==
    \E i \in DOMAIN changes :
        /\ changes[i].op = "insert"
        /\ StatKey(changes[i].row) \in {StatKey(r) : r \in BagToSet(daily_stats)}

\* the table after the flush of one staged change
ApplyChange(table, change) ==
    IF change.op = "insert"
    THEN table (+) SetToBag({change.row})
    ELSE LET old == {r \in BagToSet(table) : StatKey(r) = StatKey(change.row)}
         IN IF old = {} THEN table
            ELSE (table (-) SetToBag({CHOOSE r \in old : TRUE})) (+) SetToBag({change.row})

RECURSIVE ApplyChanges(_, _)
ApplyChanges(table, changes) ==
    IF changes = <<>> THEN table
    ELSE ApplyChanges(ApplyChange(table, Head(changes)), Tail(changes))

NewDayStats == [aggregates_created |-> 0, aggregates_updated |-> 0, errors |-> 0]

NewResults == [total_days |-> 0, days_processed |-> 0,
               total_aggregates_created |-> 0, total_errors |-> 0]

\* a range that leaves its last date out
EndDateExclusive(a) == IF acall[a].fn = "backfill" THEN acall[a].to - 1 ELSE current_date[a]

\* the last date of the call: end_date of backfill, the target date of run
end_date(a) == IF acall[a].fn = "backfill" THEN acall[a].to ELSE current_date[a]

aggFrame == <<tables, ingestVars, now, alertVars, schedVars, calc>>

\* run lines 37-38: the target date; backfill lines 180-188
AggBegin(a) ==
    /\ apc[a] = "called"
    /\ current_date' = [current_date EXCEPT ![a] =
                          IF acall[a].fn = "run" THEN acall[a].from
                          ELSE IF acall[a].fn = "run_default" THEN Yesterday
                          ELSE acall[a].from]
    /\ results' = [results EXCEPT ![a] =
                     [NewResults EXCEPT !.total_days =
                        IF acall[a].fn = "backfill" THEN acall[a].to - acall[a].from + 1 ELSE 0]]
    /\ apc' = [apc EXCEPT ![a] = "day"]
    /\ UNCHANGED <<aggFrame, daily_stats, acall, apos, staged, astats, acause>>

\* backfill line 190: while current_date <= end_date; run lines 43-59: the
\* session and the statistics of the day, or the session fails (lines 96-99)
AggDay(a) ==
    /\ apc[a] = "day"
    /\ IF current_date[a] > end_date(a)
       THEN /\ apc' = [apc EXCEPT ![a] = "returned"]
            /\ UNCHANGED <<current_date, apos, staged, astats, results, acause>>
       ELSE \/ /\ apc' = [apc EXCEPT ![a] = "pairs"]
               /\ apos' = [apos EXCEPT ![a] = 1]
               /\ staged' = [staged EXCEPT ![a] = <<>>]
               /\ astats' = [astats EXCEPT ![a] = NewDayStats]
               /\ UNCHANGED <<current_date, results, acause>>
            \/ /\ acause' = [acause EXCEPT ![a] = "fault"]
               /\ IF acall[a].fn = "backfill"
                  THEN /\ results' = [results EXCEPT ![a].total_errors = @ + 1]
                       /\ current_date' = [current_date EXCEPT ![a] = @ + 1]
                       /\ UNCHANGED apc
                  ELSE /\ apc' = [apc EXCEPT ![a] = "raised"]
                       /\ UNCHANGED <<results, current_date>>
               /\ UNCHANGED <<apos, staged, astats>>
    /\ UNCHANGED <<aggFrame, daily_stats, acall>>

\* run lines 62-79: one (station, pollutant) pair; a failing query is counted
AggPair(a) ==
    /\ apc[a] = "pairs"
    /\ apos[a] <= Len(AggPairs)
    /\ \/ \E res \in {_aggregate_for_station_pollutant(AggPairs[apos[a]][1],
                                                       AggPairs[apos[a]][2],
                                                       current_date[a])} :
             /\ staged' = [staged EXCEPT ![a] = @ \o res.change]
             /\ astats' = [astats EXCEPT ![a] =
                             IF res.result = "created" THEN Bump(@, "aggregates_created")
                             ELSE IF res.result = "updated" THEN Bump(@, "aggregates_updated")
                             ELSE @]
       \/ /\ astats[a].errors < MaxPairErrors
          /\ astats' = [astats EXCEPT ![a] = Bump(@, "errors")]
          /\ UNCHANGED staged
    /\ apos' = [apos EXCEPT ![a] = @ + 1]
    /\ UNCHANGED <<aggFrame, daily_stats, apc, acall, current_date, results, acause>>

\* run lines 81-101: db.commit() flushes the staged changes; backfill lines
\* 193-203: the tally of the day
AggCommit(a) ==
    /\ apc[a] = "pairs"
    /\ apos[a] > Len(AggPairs)
    /\ \E fault \in BOOLEAN :
       \E failed \in {fault \/ DailyUniqueViolated(staged[a])} :
          /\ daily_stats' = IF failed THEN daily_stats
                            ELSE ApplyChanges(daily_stats, staged[a])
          /\ acause' = [acause EXCEPT ![a] =
                          IF DailyUniqueViolated(staged[a]) THEN "integrity"
                          ELSE IF fault THEN "fault" ELSE "none"]
          /\ IF acall[a].fn = "backfill"
             THEN /\ results' = [results EXCEPT ![a] =
                       IF failed
                       THEN [@ EXCEPT !.total_errors = @ + 1]
                       ELSE [@ EXCEPT !.days_processed = @ + 1,
                                      !.total_aggregates_created =
                                          @ + astats[a].aggregates_created,
                                      !.total_errors = @ + astats[a].errors]]
                  /\ current_date' = [current_date EXCEPT ![a] = @ + 1]
                  /\ apc' = [apc EXCEPT ![a] = "day"]
             ELSE /\ apc' = [apc EXCEPT ![a] = IF failed THEN "raised" ELSE "returned"]
                  /\ UNCHANGED <<results, current_date>>
    /\ staged' = [staged EXCEPT ![a] = <<>>]
    /\ UNCHANGED <<aggFrame, acall, apos, astats>>

AggIdle ==
    /\ daily_stats = EmptyBag
    /\ apc = [a \in Aggs |-> "idle"]
    /\ acall = [a \in Aggs |-> [fn |-> "run", from |-> 0, to |-> 0]]
    /\ current_date = [a \in Aggs |-> 0]
    /\ apos = [a \in Aggs |-> 0]
    /\ staged = [a \in Aggs |-> <<>>]
    /\ astats = [a \in Aggs |-> NewDayStats]
    /\ results = [a \in Aggs |-> NewResults]
    /\ acause = [a \in Aggs |-> "none"]

(***************************************************************************)
(* Alert checker: AlertCheckerJob.  One instance of the job, and so one    *)
(* last_notifications, serves every run of it.                             *)
(***************************************************************************)
Evals == {1, 2}      \* runs of the alert checker

CooldownSeconds == 1800

RecencySeconds == 300

MaxNow == 2400       \* the clock stops here

MaxReadings == 2     \* readings that arrive while the alerts are checked

\* f"{alert.id}_{alert.station_id}_{alert.pollutant_id}"
alert_key(alert) == <<alert.id, alert.station_id, alert.pollutant_id>>

\* the query without its bound on the instant
ReadingsOfAnyAge(alert) ==
    {r \in BagToSet(readings) :
        /\ r.station_id = alert.station_id
        /\ r.pollutant_id = alert.pollutant_id}

\* lines 78-84: the readings of the alert's station and pollutant of the last
\* five minutes, the latest first
RecentReadings(alert) ==
    {r \in BagToSet(readings) :
        /\ r.station_id = alert.station_id
        /\ r.pollutant_id = alert.pollutant_id
        /\ r.datetime >= now - RecencySeconds}

recent_reading(alert) ==
    CHOOSE r \in RecentReadings(alert) :
        \A q \in RecentReadings(alert) : q.datetime <= r.datetime

Abs(x) == IF x < 0 THEN -x ELSE x

\* a test that takes a condition it does not know as met
ConditionElseMet(value, threshold, condition) ==
    CASE condition = "exceeds" -> value > threshold
      [] condition = "below"   -> value < threshold
      [] condition = "equals"  -> Abs(value - threshold) < 10
      [] OTHER                 -> TRUE

\* lines 121-136, the values in thousandths
_check_condition(value, threshold, condition) ==
    CASE condition = "exceeds" -> value > threshold
      [] condition = "below"   -> value < threshold
      [] condition = "equals"  -> Abs(value - threshold) < 10
      [] OTHER                 -> FALSE

\* a checker without the cooldown
NeverInCooldown(alert) == FALSE

\* lines 100-107
InCooldown(alert) ==
    /\ alert_key(alert) \in DOMAIN last_notifications
    /\ now - last_notifications[alert_key(alert)] < CooldownSeconds

\* lines 172-187: only the telegram branch sends
SendsTelegram(alert) == alert.notification_method \in {"telegram", "all"}

\* lines 151-153
StationAndPollutantFound(alert) ==
    /\ \E x \in stations : x.id = alert.station_id
    /\ \E x \in pollutants : x.id = alert.pollutant_id

\* the rows of a table in the order of their ids
RECURSIVE RowsById(_)
RowsById(rows) ==
    IF rows = {} THEN <<>>
    ELSE LET m == CHOOSE x \in rows : \A y \in rows : x.id <= y.id
         IN <<m>> \o RowsById(rows \ {m})

AlertAt(e) == active_alerts[e][epos[e]]

alertFrame == <<tables, ingestVars, aggVars, schedVars, calc>>

\* run lines 36-45: the active alerts, or none and the run returns, or the
\* query fails and the run raises
AlertRunStart(e) ==
    /\ epc[e] \in {"idle", "returned", "raised"}
    /\ \/ \E found \in {RowsById({x \in alerts : x.is_active})} :
             /\ active_alerts' = [active_alerts EXCEPT ![e] = found]
             /\ epc' = [epc EXCEPT ![e] = IF found = <<>> THEN "returned" ELSE "alerts"]
       \/ /\ epc' = [epc EXCEPT ![e] = "raised"]
          /\ active_alerts' = [active_alerts EXCEPT ![e] = <<>>]
    /\ epos' = [epos EXCEPT ![e] = 1]
    /\ notifications_sent' = [notifications_sent EXCEPT ![e] = 0]
    /\ eresult' = [eresult EXCEPT ![e] = "none"]
    /\ UNCHANGED <<alertFrame, now, alerts, last_notifications, sent_log>>

\* a loop without the try of lines 50-55: the exception of an alert leaves run
ErrorEscapes(e) == "raised"

\* run lines 54-55: the exception of an alert is logged and the loop goes on
CaughtByRun(e) == "alerts"

\* _check_and_notify_alert lines 78-110, up to the await of the send; an
\* exception is caught by run (lines 54-55)
AlertCheck(e) ==
    /\ epc[e] = "alerts"
    /\ epos[e] <= Len(active_alerts[e])
    /\ \/ /\ eresult' = [eresult EXCEPT ![e] = "error"]
          /\ epos' = [epos EXCEPT ![e] = @ + 1]
          /\ epc' = [epc EXCEPT ![e] = CaughtByRun(e)]
       \/ \E alert \in {AlertAt(e)} :
             IF RecentReadings(alert) = {}
             THEN /\ eresult' = [eresult EXCEPT ![e] = "no_reading"]
                  /\ epos' = [epos EXCEPT ![e] = @ + 1]
                  /\ UNCHANGED epc
             ELSE IF ~_check_condition(recent_reading(alert).value, alert.threshold,
                                       alert.trigger_condition)
             THEN /\ eresult' = [eresult EXCEPT ![e] = "not_met"]
                  /\ epos' = [epos EXCEPT ![e] = @ + 1]
                  /\ UNCHANGED epc
             ELSE IF InCooldown(alert)
             THEN /\ eresult' = [eresult EXCEPT ![e] = "cooldown"]
                  /\ epos' = [epos EXCEPT ![e] = @ + 1]
                  /\ UNCHANGED epc
             ELSE /\ eresult' = [eresult EXCEPT ![e] = "sending"]
                  /\ epc' = [epc EXCEPT ![e] = "sending"]
                  /\ UNCHANGED epos
    /\ UNCHANGED <<alertFrame, now, alerts, last_notifications, active_alerts,
                   notifications_sent, sent_log>>

\* lines 112-113 without the test of sent
RecordedWhatever(alert, sent) ==
    [k \in DOMAIN last_notifications \cup {alert_key(alert)} |->
        IF k = alert_key(alert) THEN now ELSE last_notifications[k]]

\* lines 112-113: if sent: self.last_notifications[alert_key] = datetime.utcnow()
AfterSend(alert, sent) ==
    IF sent
    THEN [k \in DOMAIN last_notifications \cup {alert_key(alert)} |->
             IF k = alert_key(alert) THEN now ELSE last_notifications[k]]
    ELSE last_notifications

\* _send_alert_notification lines 147-187 and TelegramNotifier.send_alert:
\* the message is delivered, or nothing is sent (the telegram send returned
\* False or raised: "not_sent"; no send was made, as the method has no
\* telegram part or a row is missing: "no_sender"), or a query raises
AlertDeliver(e) ==
    /\ epc[e] = "sending"
    /\ \/ /\ StationAndPollutantFound(AlertAt(e))
          /\ SendsTelegram(AlertAt(e))
          /\ sent_log' = Append(sent_log, [alert |-> AlertAt(e).id, at |-> now])
          /\ epc' = [epc EXCEPT ![e] = "recording"]
          /\ UNCHANGED <<epos, eresult, last_notifications>>
       \/ /\ eresult' = [eresult EXCEPT ![e] =
                          IF StationAndPollutantFound(AlertAt(e)) /\ SendsTelegram(AlertAt(e))
                          THEN "not_sent" ELSE "no_sender"]
          /\ last_notifications' = AfterSend(AlertAt(e), FALSE)
          /\ epos' = [epos EXCEPT ![e] = @ + 1]
          /\ epc' = [epc EXCEPT ![e] = "alerts"]
          /\ UNCHANGED sent_log
       \/ /\ eresult' = [eresult EXCEPT ![e] = "error"]
          /\ epos' = [epos EXCEPT ![e] = @ + 1]
          /\ epc' = [epc EXCEPT ![e] = CaughtByRun(e)]
          /\ UNCHANGED <<sent_log, last_notifications>>
    /\ UNCHANGED <<alertFrame, now, alerts, active_alerts, notifications_sent>>

\* a checker that switches an alert off once it has notified
DeactivatedOnceSent(e) ==
    {IF x.id = AlertAt(e).id THEN [x EXCEPT !.is_active = FALSE] ELSE x : x \in alerts}

\* lines 115-117 are comments: the row of the alert is not written
alerts_after_notification(e) == alerts

\* _check_and_notify_alert lines 112-119 and run lines 52-53: the send
\* returned True
AlertRecord(e) ==
    /\ epc[e] = "recording"
    /\ last_notifications' = AfterSend(AlertAt(e), TRUE)
    /\ notifications_sent' = [notifications_sent EXCEPT ![e] = @ + 1]
    /\ eresult' = [eresult EXCEPT ![e] = "sent"]
    /\ epos' = [epos EXCEPT ![e] = @ + 1]
    /\ epc' = [epc EXCEPT ![e] = "alerts"]
    /\ alerts' = alerts_after_notification(e)
    /\ UNCHANGED <<alertFrame, now, active_alerts, sent_log>>

\* run lines 57-64: every alert was checked
AlertRunEnd(e) ==
    /\ epc[e] = "alerts"
    /\ epos[e] > Len(active_alerts[e])
    /\ epc' = [epc EXCEPT ![e] = "returned"]
    /\ UNCHANGED <<alertFrame, now, alerts, last_notifications, active_alerts, epos,
                   notifications_sent, eresult, sent_log>>

\* the clock: datetime.utcnow() grows
ClockSteps == {300, 1500}

Tick ==
    /\ \E d \in ClockSteps :
          /\ now + d <= MaxNow
          /\ now' = now + d
    /\ UNCHANGED <<tables, ingestVars, aggVars, alertVars, schedVars, calc>>

\* an ingestion run commits a reading of the present instant (the providers
\* stamp their payloads with utcnow); uq_reading refuses a second one
ReadingValues == {20000, 40000}

IngestedReading ==
    /\ BagCardinality(readings) < MaxReadings
    /\ \E v \in ReadingValues :
       \E r \in {Pm25Reading(1, now, v)} :
          /\ Key(r) \notin KeysOf(readings)
          /\ readings' = readings (+) SetToBag({r})
    /\ UNCHANGED <<stations, providers, pollutants, ingestVars, now, aggVars, alertVars, schedVars, calc>>

AlertIdle ==
    /\ alerts = {}
    /\ last_notifications = <<>>
    /\ epc = [e \in Evals |-> "idle"]
    /\ active_alerts = [e \in Evals |-> <<>>]
    /\ epos = [e \in Evals |-> 1]
    /\ notifications_sent = [e \in Evals |-> 0]
    /\ eresult = [e \in Evals |-> "none"]
    /\ sent_log = <<>>

(***************************************************************************)
(* Scheduler: JobScheduler.  The scheduler counts the instances it         *)
(* submitted itself; run_now calls the job's run directly.                 *)
(***************************************************************************)
JobNames == {"ingestion_job", "daily_aggregation_job", "alert_checker_job"}

RunNowNames == JobNames \cup {"ingestion"}

max_instances == 1

MaxManual == 2       \* run_now requests in progress for one job

\* DailyAggregationJob.run is a plain function: called from run_now it keeps
\* the event loop until it returns
LoopBusy == manual["daily_aggregation_job"] > 0

\* a trigger of start fires: the job is submitted unless max_instances of it
\* are running
SchedulerFire(job) ==
    /\ ~LoopBusy
    /\ instances' = [instances EXCEPT ![job] =
                        IF @ < max_instances THEN @ + 1 ELSE @]
    /\ UNCHANGED <<tables, ingestVars, now, aggVars, alertVars, manual, returned, calc>>

\* a submitted instance ends; the scheduled aggregation runs in a thread of
\* the executor, the other two in the event loop
ScheduledDone(job) ==
    /\ instances[job] > 0
    /\ job # "daily_aggregation_job" => ~LoopBusy
    /\ instances' = [instances EXCEPT ![job] = @ - 1]
    /\ UNCHANGED <<tables, ingestVars, now, aggVars, alertVars, manual, returned, calc>>

\* what `return await self.<job>.run()` gives when the run has ended: the
\* exception of a run that raised, or
\*   IngestionJob.run returns its results dictionary;
\*   DailyAggregationJob.run is a plain function, its dictionary is not
\*   awaitable and the await raises TypeError;
\*   AlertCheckerJob.run has no return value: None
RunNowValues(job_name) ==
    CASE job_name = "ingestion_job"         -> {"summary", "raised"}
      [] job_name = "daily_aggregation_job" -> {"TypeError", "raised"}
      [] job_name = "alert_checker_job"     -> {"None", "raised"}

\* run_now lines 84-97, up to the call of run; an unknown name runs nothing
\* and returns None
RunNow(job_name) ==
    /\ ~LoopBusy
    /\ IF job_name \in JobNames
       THEN /\ manual[job_name] < MaxManual
            /\ manual' = [manual EXCEPT ![job_name] = @ + 1]
            /\ UNCHANGED returned
       ELSE /\ returned' = [job_name |-> job_name, value |-> "None"]
            /\ UNCHANGED manual
    /\ UNCHANGED <<tables, ingestVars, now, aggVars, alertVars, instances, calc>>

\* the run that run_now called ends, and run_now with it
RunNowDone(job_name) ==
    /\ manual[job_name] > 0
    /\ job_name # "daily_aggregation_job" => ~LoopBusy
    /\ manual' = [manual EXCEPT ![job_name] = @ - 1]
    /\ \E value \in RunNowValues(job_name) :
          returned' = [job_name |-> job_name, value |-> value]
    /\ UNCHANGED <<tables, ingestVars, now, aggVars, alertVars, instances, calc>>

SchedIdle ==
    /\ instances = [j \in JobNames |-> 0]
    /\ manual = [j \in JobNames |-> 0]
    /\ returned = [job_name |-> "", value |-> "None"]

(***************************************************************************)
(* Calls of the converter functions of DataNormalizer on their own.        *)
(***************************************************************************)
MaxGrid == 10020     \* the concentrations are 0.00, 0.05, ... MaxGrid * 0.05

Concentrations == {50 * k : k \in 0..MaxGrid}

NoCall == [fn |-> "none", arg |-> <<>>, done |-> FALSE, out |-> 0,
           back |-> FALSE, est |-> <<0, 1>>]

Call(fn, arg) == [fn |-> fn, arg |-> arg, done |-> FALSE, out |-> 0,
                  back |-> FALSE, est |-> <<0, 1>>]

calcFrame == <<tables, ingestVars, now, aggVars, alertVars, schedVars>>

\* _calculate_aqi(concentration, pollutant)
CalculateAqi ==
    /\ calc.fn = "_calculate_aqi"
    /\ ~calc.done
    /\ calc' = [calc EXCEPT !.done = TRUE,
                            !.out = _calculate_aqi(calc.arg[1], calc.arg[2])]
    /\ UNCHANGED calcFrame

\* UNIT_CONVERSIONS, the factors in hundredths; the key is unit_pollutant
UNIT_CONVERSIONS ==
    [k \in {<<"ppb", "NO2">>, <<"ppb", "O3">>, <<"ppb", "SO2">>, <<"ppm", "CO">>} |->
        CASE k = <<"ppb", "NO2">> -> 188
          [] k = <<"ppb", "O3">>  -> 196
          [] k = <<"ppb", "SO2">> -> 262
          [] k = <<"ppm", "CO">>  -> 114500]

\* the values, units and pollutants _convert_to_canonical_unit is called with
ReportedValues == {0, 1000, 40000}
Units == {"ppb", "ppm", "ug/m3"}
PollutantNames == {"PM2.5", "PM10", "O3", "NO2", "SO2", "CO"}

\* the AQI _calculate_aqi returned for PM2.5, given to _estimate_pm25_from_aqi;
\* the estimate is kept as a fraction, as the division does not truncate
EstimatePm25FromAqi ==
    /\ calc.fn = "_calculate_aqi"
    /\ calc.arg[2] = "PM2.5"
    /\ calc.done
    /\ ~calc.back
    /\ calc' = [calc EXCEPT !.back = TRUE, !.est = EstimateFraction(calc.out)]
    /\ UNCHANGED calcFrame

ConvertUnit ==
    /\ calc.fn = "_convert_to_canonical_unit"
    /\ ~calc.done
    /\ calc' = [calc EXCEPT !.done = TRUE,
                            !.out = _convert_to_canonical_unit(calc.arg[1], calc.arg[2],
                                                               calc.arg[3])]
    /\ UNCHANGED calcFrame

(***************************************************************************)
(* Inputs of normalize_and_save.                                           *)
(***************************************************************************)
SeqsUpTo(S, n) == UNION {[1..k -> S] : k \in 1..n}

PayloadsOf(provider) ==
    IF provider = AQICN_MOCK THEN {AqicnA, AqicnA2, AqicnNoSt}
    ELSE IF provider = GOOGLE_MOCK THEN {GoogleA}
    ELSE IF provider \in {IQAIR_MOCK, AIRVISUAL} THEN {IQAirA, IQAirHigh}
    ELSE {AqicnA}

WriterProviders == {AQICN_MOCK, GOOGLE_MOCK, IQAIR_MOCK, OPENAQ}

\* what the first writer is called with: any batch of up to MaxBatch records
WriterInputs ==
    UNION {{[provider |-> p, raw_data |-> b] : b \in SeqsUpTo(PayloadsOf(p), MaxBatch)} :
              p \in WriterProviders}

\* what the second, concurrent writer is called with: one record
OtherInputs ==
    UNION {{[provider |-> p, raw_data |-> <<r>>] : r \in PayloadsOf(p)} :
              p \in WriterProviders}

RunOff == [pc |-> "off", providers |-> <<>>, i |-> 0, total_readings |-> 0,
           providers_processed |-> 0, errors |-> <<>>]

InitWriter ==
    /\ stations \in StationTables
    /\ providers = {AQICN_MOCK, GOOGLE_MOCK, IQAIR_MOCK}
    /\ readings = EmptyBag
    /\ pollutant_cache = <<>>
    /\ station_cache = <<>>
    /\ \E in1 \in WriterInputs, in2 \in OtherInputs :
          /\ provider_name = [w \in Writers |-> IF w = 1 THEN in1.provider ELSE in2.provider]
          /\ raw_data = [w \in Writers |-> IF w = 1 THEN in1.raw_data ELSE in2.raw_data]
    /\ wpc = [w \in Writers |-> "called"]
    /\ idx = [w \in Writers |-> 0]
    /\ tx = [w \in Writers |-> EmptyBag]
    /\ expired = [w \in Writers |-> FALSE]
    /\ stats = [w \in Writers |-> NewStats(0)]
    /\ answers = [w \in Writers |-> <<>>]
    /\ run = RunOff
    /\ pollutants = PollutantTable
    /\ now = 0
    /\ AggIdle
    /\ AlertIdle
    /\ SchedIdle
    /\ calc = NoCall

NextWriter ==
    \E w \in Writers :
        \/ NormalizeBegin(w)
        \/ NormalizeRecord(w)
        \/ NormalizeLogError(w)
        \/ NormalizeCommit(w)

SpecWriter == InitWriter /\ [][NextWriter]_vars

(***************************************************************************)
(* Ingestion run: IngestionJob.run.  The run calls normalize_and_save as   *)
(* writer 1.                                                               *)
(***************************************************************************)
RunWriter == 1

\* _get_default_providers
DefaultProviders == <<AQICN_MOCK, GOOGLE_MOCK, IQAIR_MOCK>>

\* db.query(Provider).all(): the rows in the order of their ids
ProviderOrder == <<AQICN_MOCK, GOOGLE_MOCK, IQAIR_MOCK, AIRVISUAL, OPENAQ>>

QueryProviders == SelectSeq(ProviderOrder, LAMBDA n : n \in providers)

\* the branch of _fetch_provider_data the provider name selects
FetcherOf(provider) ==
    IF Contains(lower(provider), <<"a","q","i","c","n">>)
       \/ Contains(lower(provider), <<"w","a","q","i">>)
    THEN "aqicn"
    ELSE IF Contains(lower(provider), <<"g","o","o","g","l","e">>)
    THEN "google"
    ELSE IF Contains(lower(provider), <<"i","q","a","i","r">>)
            \/ Contains(lower(provider), <<"a","i","r","v","i","s","u","a","l">>)
    THEN "iqair"
    ELSE "aqicn"       \* unknown provider type: the AQICN mock is used

FetcherTable == [p \in ProviderNames |-> FetcherOf(p)]

\* what the mock services can answer: lists of payloads of the family
MockPayloads(family) ==
    CASE family = "aqicn"  -> {AqicnA, AqicnA2, AqicnNoSt}
      [] family = "google" -> {GoogleA}
      [] family = "iqair"  -> {IQAirA}

_fetch_provider_data(provider) == SeqsUpTo(MockPayloads(FetcherTable[provider]), MaxBatch)

RunFresh == [pc |-> "start", providers |-> <<>>, i |-> 0, total_readings |-> 0,
             providers_processed |-> 0, errors |-> <<>>]

RunFrame == <<tables, pollutant_cache, station_cache,
              idx, tx, expired, stats, now, aggVars, alertVars, schedVars, calc>>

\* lines 39-53: the session, the providers, the results; or the query fails
\* (lines 90-92)
RunStart ==
    /\ run.pc = "start"
    /\ \/ run' = [run EXCEPT !.pc = "fetch", !.i = 1,
                             !.providers = IF QueryProviders = <<>>
                                           THEN DefaultProviders
                                           ELSE QueryProviders]
       \/ run' = [run EXCEPT !.pc = "raised"]
    /\ UNCHANGED <<RunFrame, wpc, provider_name, raw_data, answers>>

\* lines 58-65: fetch, and the call of normalize_and_save when data came
RunFetch ==
    /\ run.pc = "fetch"
    /\ run.i <= Len(run.providers)
    /\ \E provider_data \in _fetch_provider_data(run.providers[run.i]) :
          IF provider_data # <<>>
          THEN /\ wpc' = [wpc EXCEPT ![RunWriter] = "called"]
               /\ provider_name' = [provider_name EXCEPT ![RunWriter] = run.providers[run.i]]
               /\ raw_data' = [raw_data EXCEPT ![RunWriter] = provider_data]
               /\ answers' = [answers EXCEPT ![RunWriter] = <<>>]
               /\ run' = [run EXCEPT !.pc = "normalize"]
          ELSE /\ run' = [run EXCEPT !.i = @ + 1]
               /\ UNCHANGED <<wpc, provider_name, raw_data, answers>>
    /\ UNCHANGED RunFrame

\* lines 65-66: normalize_and_save returned; lines 73-76: it raised
RunNormalized ==
    /\ run.pc = "normalize"
    /\ wpc[RunWriter] \in {"returned", "raised"}
    /\ IF wpc[RunWriter] = "returned"
       THEN run' = [run EXCEPT !.pc = "log_success",
                               !.total_readings = @ + stats[RunWriter].saved]
       ELSE run' = [run EXCEPT !.pc = "log_error",
                               !.errors = Append(@, <<run.providers[run.i], "normalize">>)]
    /\ wpc' = [wpc EXCEPT ![RunWriter] = "idle"]
    /\ UNCHANGED <<RunFrame, provider_name, raw_data, answers>>

\* line 69: await self._log_ingestion(..., "success"); a failing insert is
\* caught by the provider's except clause (lines 73-76)
RunLogSuccess ==
    /\ run.pc = "log_success"
    /\ \/ run' = [run EXCEPT !.pc = "fetch", !.i = @ + 1]
       \/ run' = [run EXCEPT !.pc = "log_error",
                             !.errors = Append(@, <<run.providers[run.i], "log">>)]
    /\ UNCHANGED <<RunFrame, wpc, provider_name, raw_data, answers>>

\* line 77: await self._log_ingestion(..., "error") inside the except clause;
\* a failing insert leaves the loop (lines 90-92: raise)
RunLogError ==
    /\ run.pc = "log_error"
    /\ \/ run' = [run EXCEPT !.pc = "fetch", !.i = @ + 1]
       \/ run' = [run EXCEPT !.pc = "raised"]
    /\ UNCHANGED <<RunFrame, wpc, provider_name, raw_data, answers>>

\* lines 79-88: the summary
RunSummarize ==
    /\ run.pc = "fetch"
    /\ run.i > Len(run.providers)
    /\ run' = [run EXCEPT !.pc = "done"]
    /\ UNCHANGED <<RunFrame, wpc, provider_name, raw_data, answers>>

ProviderTables == {{}, {AIRVISUAL, OPENAQ}}

InitIngest ==
    /\ stations \in StationTables
    /\ providers \in ProviderTables
    /\ readings = EmptyBag
    /\ pollutant_cache = <<>>
    /\ station_cache = <<>>
    /\ provider_name = [w \in Writers |-> OPENAQ]
    /\ raw_data = [w \in Writers |-> <<>>]
    /\ wpc = [w \in Writers |-> "idle"]
    /\ idx = [w \in Writers |-> 0]
    /\ tx = [w \in Writers |-> EmptyBag]
    /\ expired = [w \in Writers |-> FALSE]
    /\ stats = [w \in Writers |-> NewStats(0)]
    /\ answers = [w \in Writers |-> <<>>]
    /\ run = RunFresh
    /\ pollutants = PollutantTable
    /\ now = 0
    /\ AggIdle
    /\ AlertIdle
    /\ SchedIdle
    /\ calc = NoCall

NextIngest ==
    \/ RunStart
    \/ RunFetch
    \/ RunNormalized
    \/ RunLogSuccess
    \/ RunLogError
    \/ RunSummarize
    \/ NormalizeBegin(RunWriter)
    \/ NormalizeRecord(RunWriter)
    \/ NormalizeLogError(RunWriter)
    \/ NormalizeCommit(RunWriter)

SpecIngest == InitIngest /\ [][NextIngest]_vars

(***************************************************************************)
(* The aggregation job over a fixed table of readings: two calls, the      *)
(* first of any kind, the second a run of one date.                        *)
(***************************************************************************)
MaxDate == 1         \* the dates of the calls and of the readings are 0..MaxDate

\* no writer is active
IngestIdle ==
    /\ pollutant_cache = <<>>
    /\ station_cache = <<>>
    /\ provider_name = [w \in Writers |-> AQICN_MOCK]
    /\ raw_data = [w \in Writers |-> <<>>]
    /\ wpc = [w \in Writers |-> "idle"]
    /\ idx = [w \in Writers |-> 0]
    /\ tx = [w \in Writers |-> EmptyBag]
    /\ expired = [w \in Writers |-> FALSE]
    /\ stats = [w \in Writers |-> NewStats(0)]
    /\ answers = [w \in Writers |-> <<>>]
    /\ run = RunOff

\* AQIs 40, 60 and 80 on date 0 (the last at 23:59:59), one reading on the
\* first second of each later date, and another pair and station on date 0
ReadingsEven ==
    SetToBag({Pm25Reading(1, 100, 9600), Pm25Reading(1, 160, 16400),
              Pm25Reading(1, DaySeconds - 1, 25900),
              No2Reading(1, 100, 30000), Pm25Reading(3, 100, 40000)}
             \cup {Pm25Reading(1, d * DaySeconds, 9900) : d \in 1..MaxDate})

\* AQIs 41 and 50 on date 0: their average is not an integer
ReadingsOdd ==
    SetToBag({Pm25Reading(1, 100, 9900), Pm25Reading(1, 160, 12000)}
             \cup {No2Reading(3, d * DaySeconds + 7, 30000) : d \in 1..MaxDate})

ReadingTables == {ReadingsEven, ReadingsOdd}

AggCalls ==
    {[fn |-> "run", from |-> d, to |-> d] : d \in 0..MaxDate}
    \cup {[fn |-> "run_default", from |-> 0, to |-> 0]}
    \cup {[fn |-> "backfill", from |-> 0, to |-> e] : e \in 0..MaxDate}
    \cup {[fn |-> "backfill", from |-> 1, to |-> 0]}

OtherAggCalls == {[fn |-> "run", from |-> d, to |-> d] : d \in 0..MaxDate}

InitAgg ==
    /\ stations = {BogotaStation, IQAirStation}
    /\ pollutants = {p \in PollutantTable : p.name \in {"PM2.5", "NO2"}}
    /\ providers = {AQICN_MOCK, GOOGLE_MOCK, IQAIR_MOCK}
    /\ readings \in ReadingTables
    /\ IngestIdle
    /\ now = DaySeconds + 3600
    /\ daily_stats = EmptyBag
    /\ apc = [a \in Aggs |-> "called"]
    /\ \E c1 \in AggCalls, c2 \in OtherAggCalls :
          acall = [a \in Aggs |-> IF a = 1 THEN c1 ELSE c2]
    /\ current_date = [a \in Aggs |-> 0]
    /\ apos = [a \in Aggs |-> 0]
    /\ staged = [a \in Aggs |-> <<>>]
    /\ astats = [a \in Aggs |-> NewDayStats]
    /\ results = [a \in Aggs |-> NewResults]
    /\ acause = [a \in Aggs |-> "none"]
    /\ AlertIdle
    /\ SchedIdle
    /\ calc = NoCall

NextAgg ==
    \E a \in Aggs :
        \/ AggBegin(a)
        \/ AggDay(a)
        \/ AggPair(a)
        \/ AggCommit(a)

SpecAgg == InitAgg /\ [][NextAgg]_vars

(***************************************************************************)
(* The alert checker run tick after tick by one caller, while the clock    *)
(* advances and readings arrive.                                           *)
(***************************************************************************)
Alert(id, station_id, pollutant_id, threshold, condition, method, is_active) ==
    [id |-> id, user_id |-> 1, station_id |-> station_id, pollutant_id |-> pollutant_id,
     threshold |-> threshold, trigger_condition |-> condition,
     notification_method |-> method, is_active |-> is_active]

\* PM2.5 above 35.0 at station 1, by telegram
AlertHigh == Alert(1, 1, 1, 35000, "exceeds", "telegram", TRUE)

AlertTables ==
    {{AlertHigh},
     {AlertHigh, Alert(2, 1, 1, 35000, "below", "all", TRUE)},
     {AlertHigh, Alert(2, 1, 1, 35000, "exceeds", "email", TRUE),
                 Alert(3, 1, 1, 35000, "exceeds", "telegram", FALSE)},
     \* a condition string _check_condition does not know (the comment of the
     \* column names it), then PM2.5 equal to 40.005
     {Alert(1, 1, 1, 35000, "falls_below", "telegram", TRUE),
      Alert(2, 1, 1, 40005, "equals", "telegram", TRUE)}}

InitAlert ==
    /\ stations = {BogotaStation, IQAirStation}
    /\ pollutants = PollutantTable
    /\ providers = {AQICN_MOCK, GOOGLE_MOCK, IQAIR_MOCK}
    /\ readings = EmptyBag
    /\ IngestIdle
    /\ now = 600
    /\ AggIdle
    /\ alerts \in AlertTables
    /\ last_notifications = <<>>
    /\ epc = [e \in Evals |-> "idle"]
    /\ active_alerts = [e \in Evals |-> <<>>]
    /\ epos = [e \in Evals |-> 1]
    /\ notifications_sent = [e \in Evals |-> 0]
    /\ eresult = [e \in Evals |-> "none"]
    /\ sent_log = <<>>
    /\ SchedIdle
    /\ calc = NoCall

\* the scheduler's tick: each run starts after the one before it has ended
Ticker == 1

NextAlert ==
    \/ AlertRunStart(Ticker)
    \/ AlertCheck(Ticker)
    \/ AlertDeliver(Ticker)
    \/ AlertRecord(Ticker)
    \/ AlertRunEnd(Ticker)
    \/ Tick
    \/ IngestedReading

SpecAlert == InitAlert /\ [][NextAlert]_vars

(***************************************************************************)
(* Two runs of the one AlertCheckerJob object in the event loop: the       *)
(* scheduler's tick and a run_now of the admin API.  A run gives way to    *)
(* the other where it awaits the send.                                      *)
(***************************************************************************)
RaceAlertTables ==
    {{AlertHigh}, {AlertHigh, Alert(2, 1, 1, 35000, "exceeds", "all", TRUE)}}

InitAlertRace ==
    /\ stations = {BogotaStation, IQAirStation}
    /\ pollutants = PollutantTable
    /\ providers = {AQICN_MOCK, GOOGLE_MOCK, IQAIR_MOCK}
    /\ readings = SetToBag({Pm25Reading(1, 600, 40000)})
    /\ IngestIdle
    /\ now = 600
    /\ AggIdle
    /\ alerts \in RaceAlertTables
    /\ last_notifications = <<>>
    /\ epc = [e \in Evals |-> "idle"]
    /\ active_alerts = [e \in Evals |-> <<>>]
    /\ epos = [e \in Evals |-> 1]
    /\ notifications_sent = [e \in Evals |-> 0]
    /\ eresult = [e \in Evals |-> "none"]
    /\ sent_log = <<>>
    /\ SchedIdle
    /\ calc = NoCall

NextAlertRace ==
    \E e \in Evals :
        \/ AlertRunStart(e)
        \/ AlertCheck(e)
        \/ AlertDeliver(e)
        \/ AlertRecord(e)
        \/ AlertRunEnd(e)

SpecAlertRace == InitAlertRace /\ [][NextAlertRace]_vars

(***************************************************************************)
(* The scheduler's triggers and the manual runs of the admin API.          *)
(***************************************************************************)
InitSched ==
    /\ stations = {BogotaStation, IQAirStation}
    /\ pollutants = PollutantTable
    /\ providers = {AQICN_MOCK, GOOGLE_MOCK, IQAIR_MOCK}
    /\ readings = EmptyBag
    /\ IngestIdle
    /\ now = 0
    /\ AggIdle
    /\ AlertIdle
    /\ SchedIdle
    /\ calc = NoCall

NextSched ==
    \/ \E job \in JobNames : SchedulerFire(job)
    \/ \E job \in JobNames : ScheduledDone(job)
    \/ \E job_name \in RunNowNames : RunNow(job_name)
    \/ \E job_name \in JobNames : RunNowDone(job_name)

SpecSched == InitSched /\ [][NextSched]_vars

(***************************************************************************)
(* The converter functions called with every input of their grids.         *)
(***************************************************************************)
CalcInputs ==
    {Call("_calculate_aqi", <<c, p>>) : c \in Concentrations, p \in {"PM2.5", "NO2"}}
    \cup {Call("_convert_to_canonical_unit", <<v, u, p>>) :
              v \in ReportedValues, u \in Units, p \in PollutantNames}

InitCalc ==
    /\ stations = {BogotaStation, IQAirStation}
    /\ pollutants = PollutantTable
    /\ providers = {AQICN_MOCK, GOOGLE_MOCK, IQAIR_MOCK}
    /\ readings = EmptyBag
    /\ IngestIdle
    /\ now = 0
    /\ AggIdle
    /\ AlertIdle
    /\ SchedIdle
    /\ calc \in CalcInputs

NextCalc ==
    \/ CalculateAqi
    \/ EstimatePm25FromAqi
    \/ ConvertUnit

SpecCalc == InitCalc /\ [][NextCalc]_vars

(***************************************************************************)
(* Properties of the dedup writer.                                         *)
(***************************************************************************)
\* the rows the writer's current record normalizes to
RowsAt(w) ==
    LET normalized == _normalize_record(raw_data[w][idx[w]], provider_name[w])
    IN [i \in DOMAIN normalized |-> WithProvider(normalized[i], provider_name[w])]

\* writer w has just processed a record, and the answer was in the set
Answered(w, set) ==
    /\ Len(answers'[w]) = Len(answers[w]) + 1
    /\ answers'[w][Len(answers'[w])] \in set

\* C1: in every reachable state the store holds at most one Reading for each
\* (station, pollutant, timestamp), whatever the writers' interleaving
C1_UniqueReadings == \A k \in KeysOf(readings) : CountKey(readings, k) <= 1

\* a writer's insert waits on a key the other writer's open transaction holds
C1_Witness ==
    \E w \in Writers :
        /\ wpc[w] = "loop"
        /\ idx[w] <= Len(raw_data[w])
        /\ RowsAt(w) # <<>>
        /\ WaitsForOther(w, RowsAt(w))

\* how often the payload occurs in the writer's batch
Occurrences(w, p) == Cardinality({i \in DOMAIN raw_data[w] : raw_data[w][i] = p})

\* no storage fault was met and every call returned
CleanRun ==
    /\ \A w \in Writers : wpc[w] = "returned"
    /\ \A w \in Writers : \A i \in DOMAIN answers[w] : answers[w][i] \notin {"fault", "refresh"}

\* C2: a payload with a known station and pollutant that is submitted twice
\* under one provider, in one batch or in two batches, leaves exactly one
\* Reading per key it describes
C2_TwiceIsOnce ==
    CleanRun =>
        \A p \in {AqicnA, IQAirA} : \A n \in WriterProviders :
            LET total == IF provider_name[1] = n THEN Occurrences(1, p) ELSE 0
                other == IF provider_name[2] = n THEN Occurrences(2, p) ELSE 0
                rows  == _normalize_record(p, n)
            IN (total + other = 2 /\ rows # <<>>) =>
                  \A i \in DOMAIN rows : CountKey(readings, Key(rows[i])) = 1

\* C9: a candidate that violates the uniqueness of Reading is counted under
\* duplicates, not under errors, raises nothing, and the loop goes on to the
\* next record
C9_DuplicateIsNoError ==
    [][\A w \in Writers :
          Answered(w, {"unique"}) =>
              /\ stats'[w].duplicates = stats[w].duplicates + 1
              /\ stats'[w].errors = stats[w].errors
              /\ wpc'[w] = "loop"
              /\ idx'[w] = idx[w] + 1]_vars

\* a call met a uniqueness violation on its first record, went on and returned
C9_Witness ==
    \E w \in Writers :
        /\ wpc[w] = "returned"
        /\ Len(answers[w]) >= 2
        /\ answers[w][1] = "unique"
        /\ stats[w].duplicates >= 1

\* C10: a storage failure that is no uniqueness violation is counted under
\* errors and never under duplicates
C10_StorageFailureIsError ==
    [][\A w \in Writers :
          Answered(w, {"notnull", "fault"}) =>
              /\ stats'[w].errors = stats[w].errors + 1
              /\ stats'[w].duplicates = stats[w].duplicates]_vars

(***************************************************************************)
(* Properties of the ingestion run.                                        *)
(***************************************************************************)
\* C8: once the normalization of a provider has failed and is recorded in the
\* errors, the run does not end by raising: it goes on to the next provider
\* and reaches the summary
C8_FailureIsolated ==
    (\E i \in DOMAIN run.errors : run.errors[i][2] = "normalize") => run.pc # "raised"

\* the rows of the i-th record of the writer's batch
RowsOfRecord(w, i) == _normalize_record(raw_data[w][i], provider_name[w])

\* C11: when normalize_and_save has returned to the run, every record it
\* counted as saved has its readings in the store, so the total the summary
\* adds up is what was committed
C11_SavedIsCommitted ==
    (run.pc = "normalize" /\ wpc[RunWriter] = "returned") =>
        \A i \in DOMAIN answers[RunWriter] :
            answers[RunWriter][i] = "ok" =>
                \A j \in DOMAIN RowsOfRecord(RunWriter, i) :
                    Key(RowsOfRecord(RunWriter, i)[j]) \in KeysOf(readings)

(***************************************************************************)
(* Properties of the daily aggregation.                                    *)
(***************************************************************************)
\* C26: a stored reading is never updated or deleted: every committed row
\* stays as it is, and a key that has a committed row gets no other row, so
\* the value and AQI written first for a (station, pollutant, instant) stay
C26_FirstWriteWins ==
    [][/\ \A r \in BagToSet(readings) : CopiesIn(r, readings') = CopiesIn(r, readings)
       /\ \A r \in BagToSet(readings') :
             Key(r) \in KeysOf(readings) => r \in BagToSet(readings)]_vars

\* a payload with another value for a stored key was refused as a duplicate,
\* and the stored row has the value written first
C26_Witness ==
    \E w \in Writers :
        /\ wpc[w] = "returned"
        /\ \E i \in DOMAIN answers[w] :
              /\ answers[w][i] = "unique"
              /\ raw_data[w][i] = AqicnA2
        /\ \E r \in BagToSet(readings) : r.value = 10000 /\ r.datetime = 100
        /\ \A r \in BagToSet(readings) : r.value # 40000

\* C27: in the statistics of a batch that returned every record is counted
\* in one outcome: total_records = saved + duplicates + errors, and
\* validated = saved + duplicates
C27_OneOutcomePerRecord ==
    \A w \in Writers :
        wpc[w] = "returned" =>
            /\ stats[w].total_records
                   = stats[w].saved + stats[w].duplicates + stats[w].errors
            /\ stats[w].validated = stats[w].saved + stats[w].duplicates

\* C15: every persisted reading has an integer AQI between 0 and 500,
\* whichever provider family it came from.
C15_AqiInRange ==
    \A r \in BagToSet(readings) : r.aqi \in 0..500

\* the committed rows of a key, counted with their copies
StatsOfKey(k) ==
    SumRows({r \in BagToSet(daily_stats) : StatKey(r) = k}, daily_stats, "count")

\* C4: the table of daily statistics holds at most one row for each
\* (station, pollutant, date), whatever runs, re-runs, backfills and
\* overlapping runs have written
C4_OneStatPerKey ==
    \A r \in BagToSet(daily_stats) : StatsOfKey(StatKey(r)) <= 1

\* two runs overlapped on a date: the commit of the later one was refused by
\* the constraint and the rows of the earlier one are stored
C4_Witness ==
    /\ \E a \in Aggs : acause[a] = "integrity"
    /\ daily_stats # EmptyBag

\* the pair a call is at, and whether a row of its key is stored
PairAt(a) == AggPairs[apos[a]]

StoredAt(a) ==
    \E r \in BagToSet(daily_stats) :
        StatKey(r) = <<PairAt(a)[1], PairAt(a)[2], current_date[a]>>

\* C5: aggregating a date again over the same readings is idempotent: a pair
\* whose row is stored is never counted as created (it is counted as updated
\* unless its query failed), and the commit of a run that created nothing
\* leaves every stored row with the values it had
C5_RerunIdempotent ==
    [][\A a \in Aggs :
          /\ (/\ apc[a] = "pairs"
              /\ apos[a] <= Len(AggPairs)
              /\ apos'[a] = apos[a] + 1
              /\ StoredAt(a))
             => /\ astats'[a].aggregates_created = astats[a].aggregates_created
                /\ \/ astats'[a].aggregates_updated = astats[a].aggregates_updated + 1
                   \/ astats'[a].errors = astats[a].errors + 1
          /\ (/\ apc[a] = "pairs"
              /\ apc'[a] # "pairs"
              /\ astats[a].aggregates_created = 0)
             => daily_stats' = daily_stats]_vars

\* a run over a date already aggregated returned, with rows updated and none
\* created
C5_Witness ==
    \E a \in Aggs :
        /\ apc[a] = "returned"
        /\ acall[a].fn # "backfill"
        /\ astats[a].aggregates_updated >= 1
        /\ astats[a].aggregates_created = 0
        /\ acause[a] = "none"
        /\ daily_stats # EmptyBag

\* the readings of the key of a row: same station, same pollutant, and an
\* instant of the row's date
ReadingsOfStat(row) ==
    {r \in BagToSet(readings) :
        /\ r.station_id = row.station_id
        /\ r.pollutant_id = row.pollutant_id
        /\ r.datetime \div DaySeconds = row.date}

SumAqi(rows) == SumRows(rows, readings, "aqi")

CountOf(rows) == SumRows(rows, readings, "count")

\* C6: every stored row is computed from exactly the readings of its station
\* and pollutant whose instant falls on its date: readings_count is their
\* number, max_aqi and min_aqi the largest and smallest of their AQIs, and
\* avg_aqi the integer part of their average
C6_StatsOfTheDate ==
    \A row \in BagToSet(daily_stats) :
        LET rs == ReadingsOfStat(row)
        IN /\ rs # {}
           /\ row.readings_count = CountOf(rs)
           /\ \E r \in rs : r.aqi = row.max_aqi
           /\ \A r \in rs : r.aqi <= row.max_aqi
           /\ \E r \in rs : r.aqi = row.min_aqi
           /\ \A r \in rs : r.aqi >= row.min_aqi
           /\ row.avg_aqi * CountOf(rs) <= SumAqi(rs)
           /\ SumAqi(rs) < (row.avg_aqi + 1) * CountOf(rs)

\* the AQIs 40, 60 and 80 of one pair on date 0 are stored as 60, 80, 40, 3,
\* beside readings of other dates and other pairs
C6_Witness ==
    \E row \in BagToSet(daily_stats) :
        /\ StatKey(row) = <<1, 1, 0>>
        /\ {r.aqi : r \in ReadingsOfStat(row)} = {40, 60, 80}
        /\ row.avg_aqi = 60
        /\ row.max_aqi = 80
        /\ row.min_aqi = 40
        /\ row.readings_count = 3
        /\ \E r \in BagToSet(readings) : r.datetime \div DaySeconds # 0

\* C6 as stated: avg_aqi is the average of the AQIs of the readings of the date
C6_AvgIsTheAverage ==
    \A row \in BagToSet(daily_stats) :
        row.avg_aqi * CountOf(ReadingsOfStat(row)) = SumAqi(ReadingsOfStat(row))

(***************************************************************************)
(* Properties of the alert checker.                                        *)
(***************************************************************************)
\* C3: with one run of the checker after the other, any two notifications of
\* the same alert are at least 1800 seconds apart: a check made less than
\* 1800 seconds after the last notification of the alert sends nothing
C3_CooldownSpacing ==
    \A i, j \in DOMAIN sent_log :
        (i < j /\ sent_log[i].alert = sent_log[j].alert)
            => sent_log[j].at - sent_log[i].at >= CooldownSeconds

\* an alert was notified twice, 1800 seconds apart, and a check of it in
\* between or after was suppressed by the cooldown
C3_Witness ==
    /\ \E i, j \in DOMAIN sent_log :
          /\ i < j
          /\ sent_log[i].alert = sent_log[j].alert
          /\ sent_log[j].at - sent_log[i].at = CooldownSeconds
    /\ eresult[Ticker] = "cooldown"

\* C24: whatever the notification method of the alert (telegram, email,
\* in-app, all), a check that found the condition met and no cooldown
\* dispatches the notification, unless the send fails, and then records the
\* instant of the dispatch as the alert's cooldown entry
C24_EveryMethodDispatches ==
    [][\A e \in Evals :
          LET alert == AlertAt(e)
          IN /\ (/\ epc[e] = "sending"
                 /\ epc'[e] # "sending"
                 /\ eresult'[e] \notin {"not_sent", "error"})
                => /\ epc'[e] = "recording"
                   /\ sent_log' = Append(sent_log, [alert |-> alert.id, at |-> now])
             /\ (epc[e] = "recording" /\ epc'[e] # "recording")
                => /\ alert_key(alert) \in DOMAIN last_notifications'
                   /\ last_notifications'[alert_key(alert)] = now]_vars

\* C25: the cooldown map changes only where a notification was sent: the
\* step that changes it ends a check whose send succeeded and changes the
\* entry of that alert alone, and a check that ends with no recent reading,
\* the condition not met, the cooldown, a failed send or an exception leaves
\* the whole map as it was
C25_CooldownOnlyOnSuccess ==
    [][/\ last_notifications' # last_notifications =>
             \E e \in Evals :
                 /\ epc[e] = "recording"
                 /\ eresult'[e] = "sent"
                 /\ sent_log # <<>>
                 /\ sent_log[Len(sent_log)].alert = AlertAt(e).id
                 /\ \A k \in DOMAIN last_notifications :
                        k # alert_key(AlertAt(e)) =>
                            /\ k \in DOMAIN last_notifications'
                            /\ last_notifications'[k] = last_notifications[k]
                 /\ DOMAIN last_notifications' =
                        DOMAIN last_notifications \cup {alert_key(AlertAt(e))}
       /\ \A e \in Evals :
             (/\ epos'[e] = epos[e] + 1
              /\ eresult'[e] \in {"no_reading", "not_met", "cooldown", "not_sent",
                                  "no_sender", "error"})
                => last_notifications' = last_notifications]_vars

\* one alert was notified and has its entry, the send for another alert
\* failed and left the map as it was
C25_Witness ==
    /\ eresult[Ticker] = "not_sent"
    /\ Len(sent_log) = 1
    /\ DOMAIN last_notifications = {alert_key(AlertHigh)}
    /\ last_notifications[alert_key(AlertHigh)] = sent_log[1].at

\* the steps a run of the checker has left at most
EvalStepsLeft(e) ==
    IF epc[e] \in {"idle", "returned", "raised"} THEN 0
    ELSE 3 * (Len(active_alerts[e]) + 1 - epos[e])
         + (CASE epc[e] = "alerts" -> 1
              [] epc[e] = "sending" -> 0
              [] epc[e] = "recording" -> -1)

\* C29: within a run of the checker, an exception while one alert is checked
\* or notified stays with that alert: the run goes on to the next alert
\* with the cooldown map and the notification count as they were, a run
\* that has its alerts never raises, every step of it brings its end
\* nearer, and at its return every active alert has been evaluated
C29_ErrorConfinedToAlert ==
    /\ [](\A e \in Evals :
            /\ EvalStepsLeft(e) >= 0
            /\ (epc[e] = "returned" => epos[e] = Len(active_alerts[e]) + 1))
    /\ [][\A e \in Evals :
            /\ (epc[e] \in {"alerts", "sending", "recording"}) =>
                   /\ epc'[e] # "raised"
                   /\ active_alerts'[e] = active_alerts[e]
                   /\ epos'[e] \in {epos[e], epos[e] + 1}
                   /\ (<<epc[e], epos[e]>>' # <<epc[e], epos[e]>>
                          => EvalStepsLeft(e)' < EvalStepsLeft(e))
            /\ (epc[e] \in {"alerts", "sending"} /\ eresult'[e] = "error"
                   /\ epos'[e] # epos[e]) =>
                   /\ epc'[e] = "alerts"
                   /\ epos'[e] = epos[e] + 1
                   /\ last_notifications' = last_notifications
                   /\ notifications_sent' = notifications_sent
                   /\ sent_log' = sent_log]_vars

C29_Witness ==
    /\ epc[Ticker] = "returned"
    /\ Len(active_alerts[Ticker]) = 2
    /\ eresult[Ticker] = "error"
    /\ notifications_sent[Ticker] = 1

\* C30: a step of a run of the checker leaves every row of the tables alert,
\* reading and daily_stats (and station, pollutant and provider) as it was
C30_EvaluatorReadOnly ==
    [][<<epc, active_alerts, epos, notifications_sent, eresult, sent_log,
         last_notifications>>' # <<epc, active_alerts, epos, notifications_sent,
                                   eresult, sent_log, last_notifications>>
          => /\ alerts' = alerts
             /\ readings' = readings
             /\ daily_stats' = daily_stats
             /\ <<stations, pollutants, providers>>' = <<stations, pollutants, providers>>]_vars

C30_Witness ==
    /\ eresult[Ticker] = "sent"
    /\ epc[Ticker] = "returned"
    /\ alert_key(AlertHigh) \in DOMAIN last_notifications
    /\ AlertHigh \in alerts
    /\ BagCardinality(readings) = MaxReadings

\* C23: with two overlapping runs of the checker that share the cooldown
\* map, no alert is notified twice within 1800 seconds
C23_OverlapDoesNotRace ==
    \A i, j \in DOMAIN sent_log :
        (i # j /\ sent_log[i].alert = sent_log[j].alert /\ sent_log[i].at <= sent_log[j].at)
            => sent_log[j].at - sent_log[i].at >= CooldownSeconds

(***************************************************************************)
(* Properties of the scheduler.                                            *)
(***************************************************************************)
\* C7: no job has two invocations running at once, started by a trigger or
\* by run_now
C7_NonReentrant ==
    \A job \in JobNames : instances[job] + manual[job] <= 1

\* C22: run_now of a known job name returns the summary of the run it made,
\* which the caller can tell from the None of an unknown name; run_now of any
\* other name returns None.
C22_RunNowSummary ==
    /\ (returned.job_name \in JobNames /\ returned.value # "raised") =>
           returned.value = "summary"
    /\ (returned.job_name \notin JobNames) => returned.value = "None"

Met(value, threshold, condition) ==
    \/ condition = "exceeds" /\ value > threshold
    \/ condition = "below" /\ value < threshold
    \/ condition = "equals" /\ value - threshold < 10 /\ threshold - value < 10

\* the reading a check of the alert looks at, if there is one
Latest(alert) ==
    {r \in BagToSet(readings) :
        /\ r.station_id = alert.station_id
        /\ r.pollutant_id = alert.pollutant_id
        /\ r.datetime >= now - RecencySeconds
        /\ \A q \in BagToSet(readings) :
              (q.station_id = r.station_id /\ q.pollutant_id = r.pollutant_id)
                  => q.datetime <= r.datetime}

RoundDiv(n, d) == (2 * n + d) \div (2 * d)

\* the bands of the table that hold a concentration
BandsHolding(c) ==
    {b \in {AQI_BREAKPOINTS[i] : i \in DOMAIN AQI_BREAKPOINTS} : b[3] <= c /\ c <= b[4]}

\* C14: for PM2.5 and a concentration inside a band, the AQI is
\* round((aqiHigh - aqiLow) / (concHigh - concLow) * (conc - concLow) + aqiLow),
\* and above all bands it is 500
C14_AqiIsRounded ==
    (calc.fn = "_calculate_aqi" /\ calc.done /\ calc.arg[2] = "PM2.5") =>
        /\ \A b \in BandsHolding(calc.arg[1]) :
              calc.out = b[1] + RoundDiv((b[2] - b[1]) * (calc.arg[1] - b[3]), b[4] - b[3])
        /\ calc.arg[1] > 500400 => calc.out = 500

\* C28: the PM2.5 AQI does not decrease as the concentration rises, from 0
\* to the top of the highest band, the concentrations between two bands
\* included: the AQI of a concentration is at most the AQI of the next
\* concentration of the grid
C28_AqiMonotone ==
    (/\ calc.fn = "_calculate_aqi"
     /\ calc.done
     /\ calc.arg[2] = "PM2.5"
     /\ calc.arg[1] + 50 <= AQI_BREAKPOINTS[Len(AQI_BREAKPOINTS)][4]) =>
        calc.out <= _calculate_aqi(calc.arg[1] + 50, "PM2.5")

\* the conversion factor of a unit and pollutant, in hundredths; 100 where
\* the table has no entry (the value is in its canonical unit already)
FactorOf(unit, pollutant) ==
    IF <<unit, pollutant>> \in DOMAIN UNIT_CONVERSIONS
    THEN UNIT_CONVERSIONS[<<unit, pollutant>>]
    ELSE 100

\* C16: canonicalization multiplies a ppb value of NO2, O3, SO2 by 1.88, 1.96,
\* 2.62 and a ppm value of CO by 1145, and leaves every other value as it is.
C16_ConversionApplied ==
    (calc.fn = "_convert_to_canonical_unit" /\ calc.done) =>
        calc.out * 100 = calc.arg[1] * FactorOf(calc.arg[2], calc.arg[3])

\* C17: for a PM2.5 concentration inside a band, the concentration estimated
\* from its AQI lies in the same band, within one AQI step
\* (concentration width / AQI width of the band) of the concentration.
C17_RoundTripWithinStep ==
    (calc.fn = "_calculate_aqi" /\ calc.arg[2] = "PM2.5" /\ calc.back) =>
        \A b \in BandsHolding(calc.arg[1]) :
            /\ b[3] * calc.est[2] <= calc.est[1]
            /\ calc.est[1] <= b[4] * calc.est[2]
            /\ Abs(calc.arg[1] * calc.est[2] - calc.est[1]) * (b[2] - b[1])
                   <= (b[4] - b[3]) * calc.est[2]

C17_Witness ==
    /\ calc.fn = "_calculate_aqi" /\ calc.arg = <<20000, "PM2.5">>
    /\ calc.back
    /\ calc.out = 67
    /\ calc.est = <<965700, 49>>

\* the substrings that name a provider family
FamilySubstrings ==
    {<<"a","q","i","c","n">>, <<"w","a","q","i">>, <<"g","o","o","g","l","e">>,
     <<"i","q","a","i","r">>, <<"a","i","r","v","i","s","u","a","l">>}

\* the provider names that hold one of them, whatever the case of the letters
Recognised == {p \in ProviderNames : \E sub \in FamilySubstrings : Contains(lower(p), sub)}

\* C18: the fetch step and the normalize step choose the same family for a
\* provider name that holds aqicn, waqi, google, iqair or airvisual, and a name
\* that holds none of them yields no candidate reading.
C18_SameDispatch ==
    run.pc = "normalize" =>
        LET p == provider_name[RunWriter]
        IN  \A i \in DOMAIN raw_data[RunWriter] :
                IF p \in Recognised
                THEN raw_data[RunWriter][i].shape = NormalizerTable[p]
                ELSE _normalize_record(raw_data[RunWriter][i], p) = <<>>

\* C19: a candidate whose station is not in the cache is dropped by the
\* adapter: the rows given to _save_reading and the rows stored all have a station.
C19_NoNullStation ==
    /\ \A w \in Writers : \A i \in DOMAIN answers[w] :
          answers[w][i] \notin {"dropped", "refresh"} =>
              \A j \in DOMAIN RowsOfRecord(w, i) : RowsOfRecord(w, i)[j].station_id # None
    /\ \A r \in BagToSet(readings) : r.station_id # None

\* the rows of a table of daily statistics that have a key, with their copies
RowsOfKey(table, k) ==
    [r \in {x \in BagToSet(table) : StatKey(x) = k} |-> CopiesIn(r, table)]

\* the pairs of a call's date that have no reading on it
PairsWithoutReadings(a) ==
    {k \in DOMAIN AggPairs :
        ReadingsOfDay(AggPairs[k][1], AggPairs[k][2], current_date[a]) = {}}

\* C20: a (station, pollutant) pair with no reading on the target date is
\* skipped: its step stages no change and counts nothing, and the commit of
\* the date leaves the rows of its key as they were (none written, none
\* modified, none deleted).
C20_SkippedPairUntouched ==
    [][\A a \in Aggs :
          /\ (/\ apc[a] = "pairs"
              /\ apos[a] \in PairsWithoutReadings(a)
              /\ apos'[a] = apos[a] + 1)
             => /\ staged'[a] = staged[a]
                /\ daily_stats' = daily_stats
                /\ astats'[a].aggregates_created = astats[a].aggregates_created
                /\ astats'[a].aggregates_updated = astats[a].aggregates_updated
          /\ (/\ apc[a] = "pairs"
              /\ apos[a] > Len(AggPairs)
              /\ apc'[a] # "pairs")
             => \A k \in PairsWithoutReadings(a) :
                    RowsOfKey(daily_stats', <<AggPairs[k][1], AggPairs[k][2], current_date[a]>>)
                        = RowsOfKey(daily_stats, <<AggPairs[k][1], AggPairs[k][2], current_date[a]>>)]_vars

\* a run has committed rows for its date and skipped a pair, which has no row
C20_Witness ==
    \E a \in Aggs :
        /\ apc[a] = "returned"
        /\ acause[a] = "none"
        /\ astats[a].aggregates_created >= 1
        /\ \E k \in PairsWithoutReadings(a) :
               ExistingStat(AggPairs[k][1], AggPairs[k][2], current_date[a]) = {}
        /\ \E r \in BagToSet(daily_stats) : r.date = current_date[a]

\* the days of a backfill that are behind it
DaysDone(a) == current_date[a] - acall[a].from

\* the days of the range start..end, none when start is after end
DaysOfRange(a) == IF acall[a].to >= acall[a].from THEN acall[a].to - acall[a].from + 1 ELSE 0

\* a bound on the steps a backfill has yet to take: the days ahead, each of
\* one step per pair and three more, and the steps ahead within the day
StepsLeft(a) ==
    IF apc[a] = "called" THEN (DaysOfRange(a) + 1) * (Len(AggPairs) + 3)
    ELSE IF apc[a] = "returned" THEN 0
    ELSE (DaysOfRange(a) - DaysDone(a)) * (Len(AggPairs) + 3)
         + (IF apc[a] = "day" THEN Len(AggPairs) + 2 ELSE Len(AggPairs) + 1 - apos[a])

\* the position of a call: where it is, at which pair, on which date
Position(a) == <<apc[a], apos[a], current_date[a]>>

\* C21: backfill(start, end) attempts the aggregation of each date of the
\* range once, in increasing order, a failed day is tallied as an error and
\* the next date follows, so that the days processed and the failed days add
\* up to the days of the range, and the call returns (each of its steps
\* lowers StepsLeft, which is never negative, and it is never at a position
\* with no step to take); nothing is attempted when start is after end.
C21_BackfillCoversRange ==
    /\ [](\A a \in Aggs : (acall[a].fn = "backfill" /\ apc[a] # "called") =>
             /\ apc[a] # "raised"
             /\ 0 <= DaysDone(a) /\ DaysDone(a) <= DaysOfRange(a)
             /\ 0 <= results[a].days_processed
             /\ results[a].days_processed <= DaysDone(a)
             /\ results[a].total_errors >= DaysDone(a) - results[a].days_processed
             /\ apc[a] = "pairs" => current_date[a] <= acall[a].to
             /\ apc[a] = "returned" => DaysDone(a) = DaysOfRange(a)
             /\ apc[a] \in {"day", "pairs", "returned"}
             /\ apc[a] = "pairs" => apos[a] \in 1..(Len(AggPairs) + 1)
             /\ StepsLeft(a) >= 0)
    /\ [][\A a \in Aggs : (acall[a].fn = "backfill" /\ apc[a] # "called") =>
             /\ current_date'[a] \in {current_date[a], current_date[a] + 1}
             /\ (apc[a] = "pairs" /\ apc'[a] # "pairs") =>
                    (apc'[a] = "day" /\ current_date'[a] = current_date[a] + 1)
             /\ (apc[a] = "day" /\ apc'[a] = "pairs") => current_date'[a] = current_date[a]
             /\ current_date'[a] = current_date[a] + 1 =>
                    \/ results'[a].days_processed = results[a].days_processed + 1
                    \/ /\ results'[a].days_processed = results[a].days_processed
                       /\ results'[a].total_errors = results[a].total_errors + 1
             /\ current_date'[a] = current_date[a] =>
                    results'[a].days_processed = results[a].days_processed
             /\ Position(a)' # Position(a) => StepsLeft(a)' < StepsLeft(a)]_vars

\* a backfill of two dates returned after one failed day and one processed day
C21_Witness ==
    \E a \in Aggs :
        /\ acall[a] = [fn |-> "backfill", from |-> 0, to |-> 1]
        /\ apc[a] = "returned"
        /\ results[a].days_processed = 1
        /\ results[a].total_errors >= 1
        /\ \E r \in BagToSet(daily_stats) : r.date = 1

====
